---- MODULE Spec2Model ----
\* Model of src/app.py: a Flask service that keeps per-service AES-256 keys in
\* an SQLite table `services` and exposes create_service, update_key, encrypt
\* and decrypt.  Every request runs in its own thread with its own SQLite
\* connection; the table is the only shared state.
EXTENDS Integers, Sequences, FiniteSets, TLC

\* ---------------------------------------------------------------------------
\* Bounds of the model
\* ---------------------------------------------------------------------------
\* Number of clients, each with at most one request in flight.
MaxClients == 2
\* Number of rows the services table may come to hold.
MaxRows == 3
\* Number of distinct values os.urandom yields for a key or an IV.
NumRand == 2

\* ---------------------------------------------------------------------------
\* Byte-level helpers
\* ---------------------------------------------------------------------------
RECURSIVE Xor(_, _)
\* Bitwise exclusive-or of two naturals (the cipher mode's combining step).
Xor(a, b) ==
  IF a = 0 THEN b
  ELSE IF b = 0 THEN a
  ELSE (((a % 2) + (b % 2)) % 2) + 2 * Xor(a \div 2, b \div 2)

RECURSIVE SumSeq(_)
SumSeq(s) == IF s = <<>> THEN 0 ELSE Head(s) + SumSeq(Tail(s))

\* s[:n] of Python: the first n elements, or all of s when it is shorter.
Take(s, n) == SubSeq(s, 1, IF Len(s) < n THEN Len(s) ELSE n)
\* s[n:] of Python: everything after the first n elements.
Drop(s, n) == SubSeq(s, n + 1, Len(s))

\* ---------------------------------------------------------------------------
\* Sizes and random sources
\* ---------------------------------------------------------------------------
\* AES key size in bytes (os.urandom(32)).
KEY_LEN == 32
\* AES block size and IV size in bytes (os.urandom(16)).
IV_LEN == 16

\* The values generate_aes_key() can return (os.urandom(32)).
generate_aes_key == {[j \in 1..KEY_LEN |-> (83 * k + 3 * j) % 256] : k \in 1..NumRand}
\* The values generate_iv() can return (os.urandom(16)).
generate_iv == {[j \in 1..IV_LEN |-> (151 * k + 5 * j) % 256] : k \in 1..NumRand}

\* ---------------------------------------------------------------------------
\* base64 (base64.b64encode / base64.b64decode).  A base64 text is a sequence
\* of alphabet indices 0..63, with B64Pad standing for '='.
\* ---------------------------------------------------------------------------
B64Pad == 64

\* b64encode: every three bytes become four characters; a final group of one
\* or two bytes is zero-filled and its unused characters are written '='.
b64encode(bytes) ==
  LET n == Len(bytes)
      byte(i) == IF i <= n THEN bytes[i] ELSE 0
      group(g) == byte(3 * g + 1) * 65536 + byte(3 * g + 2) * 256 + byte(3 * g + 3)
      char(g, k) ==
        IF k = 0 THEN group(g) \div 262144
        ELSE IF k = 1 THEN (group(g) \div 4096) % 64
        ELSE IF k = 2 THEN
          IF 3 * g + 2 <= n THEN (group(g) \div 64) % 64 ELSE B64Pad
        ELSE IF 3 * g + 3 <= n THEN group(g) % 64 ELSE B64Pad
  IN  [i \in 1..(4 * ((n + 2) \div 3)) |-> char((i - 1) \div 4, (i - 1) % 4)]

\* binascii.a2b_base64 in its default (non-strict) mode, the body of b64decode.  It
\* walks the text keeping the position in the current quad (the number of
\* data characters seen, modulo 4) and the pads seen since the last data
\* character; it stops at a pad that completes a quad that holds at least two
\* data characters, and raises binascii.Error when the text ends inside a
\* quad.  Yields [ok |-> TRUE, bytes |-> ...] or [ok |-> FALSE, bytes |-> <<>>].
a2b_base64(text) ==
  LET n == Len(text)
      IsData(i) == text[i] # B64Pad
      \* data characters before position i
      seen(i) == Cardinality({j \in 1..(i - 1) : IsData(j)})
      quad_pos(i) == seen(i) % 4
      \* pads counted when position i is reached: those since the last data
      \* character (all met at the same quad position)
      pads(i) == Cardinality({j \in 1..(i - 1) :
                   ~IsData(j) /\ \A k \in j..(i - 1) : ~IsData(k)})
      stops == {i \in 1..n : /\ ~IsData(i)
                             /\ quad_pos(i) >= 2
                             /\ quad_pos(i) + pads(i) + 1 >= 4}
      end == IF stops = {} THEN n + 1
             ELSE CHOOSE i \in stops : \A j \in stops : i <= j
      data == SelectSeq(SubSeq(text, 1, end - 1), LAMBDA c : c # B64Pad)
      m == Len(data)
      sextet(i) == IF i <= m THEN data[i] ELSE 0
      \* the k-th byte of quad q (k = 0, 1, 2)
      byte(q, k) ==
        LET a == sextet(4 * q + k + 1)
            b == sextet(4 * q + k + 2)
        IN  IF k = 0 THEN a * 4 + (b \div 16)
            ELSE IF k = 1 THEN (a % 16) * 16 + (b \div 4)
            ELSE (a % 4) * 64 + b
      count == 3 * (m \div 4) + (IF m % 4 >= 2 THEN (m % 4) - 1 ELSE 0)
  IN  IF stops = {} /\ m % 4 # 0 THEN [ok |-> FALSE, bytes |-> <<>>]
      ELSE [ok |-> TRUE,
            bytes |-> [i \in 1..count |-> byte((i - 1) \div 3, (i - 1) % 3)]]

\* The texts the table can hold (keys and IVs as create_service and update_key
\* store them).  Their decodings are computed once and looked up afterwards.
StoredTexts ==
  {b64encode(k) : k \in generate_aes_key} \cup {b64encode(iv) : iv \in generate_iv}
DecodedTexts == [t \in StoredTexts |-> a2b_base64(t)]

b64decode(text) ==
  IF text \in StoredTexts THEN DecodedTexts[text] ELSE a2b_base64(text)

\* ---------------------------------------------------------------------------
\* UTF-8 (str.encode() / bytes.decode()).  A str is a sequence of code points.
\* ---------------------------------------------------------------------------
RECURSIVE encode(_)
encode(str) ==
  IF str = <<>> THEN <<>>
  ELSE
    LET cp == Head(str) IN
    (IF cp < 128 THEN <<cp>>
     ELSE IF cp < 2048 THEN <<192 + (cp \div 64), 128 + (cp % 64)>>
     ELSE IF cp < 65536 THEN
       <<224 + (cp \div 4096), 128 + ((cp \div 64) % 64), 128 + (cp % 64)>>
     ELSE <<240 + (cp \div 262144), 128 + ((cp \div 4096) % 64),
            128 + ((cp \div 64) % 64), 128 + (cp % 64)>>)
    \o encode(Tail(str))

Cont(b) == b >= 128 /\ b <= 191

RECURSIVE utf8_decode(_, _)
\* The strict UTF-8 decoder: [ok |-> TRUE, str |-> ...] for well-formed input,
\* [ok |-> FALSE, str |-> <<>>] otherwise (UnicodeDecodeError).
utf8_decode(bytes, out) ==
  IF bytes = <<>> THEN [ok |-> TRUE, str |-> out]
  ELSE
    LET b1 == bytes[1]
        n  == Len(bytes)
        bad == [ok |-> FALSE, str |-> <<>>]
    IN
    IF b1 < 128 THEN utf8_decode(Tail(bytes), Append(out, b1))
    ELSE IF b1 >= 194 /\ b1 <= 223 THEN
      IF n >= 2 /\ Cont(bytes[2])
      THEN utf8_decode(Drop(bytes, 2),
                       Append(out, (b1 - 192) * 64 + (bytes[2] - 128)))
      ELSE bad
    ELSE IF b1 >= 224 /\ b1 <= 239 THEN
      IF /\ n >= 3
         /\ Cont(bytes[2])
         /\ Cont(bytes[3])
         /\ (b1 = 224 => bytes[2] >= 160)
         /\ (b1 = 237 => bytes[2] <= 159)
      THEN utf8_decode(Drop(bytes, 3),
                       Append(out, (b1 - 224) * 4096 + (bytes[2] - 128) * 64
                                     + (bytes[3] - 128)))
      ELSE bad
    ELSE IF b1 >= 240 /\ b1 <= 244 THEN
      IF /\ n >= 4
         /\ Cont(bytes[2])
         /\ Cont(bytes[3])
         /\ Cont(bytes[4])
         /\ (b1 = 240 => bytes[2] >= 144)
         /\ (b1 = 244 => bytes[2] <= 143)
      THEN utf8_decode(Drop(bytes, 4),
                       Append(out, (b1 - 240) * 262144
                                     + (bytes[2] - 128) * 4096
                                     + (bytes[3] - 128) * 64
                                     + (bytes[4] - 128)))
      ELSE bad
    ELSE bad

decode(bytes) == utf8_decode(bytes, <<>>)

\* ---------------------------------------------------------------------------
\* The cipher: Cipher(algorithms.AES(key), modes.CFB(iv)).
\* ---------------------------------------------------------------------------
\* The AES block function under a key, abstracted as a deterministic keyed
\* function from a 16-byte block to a 16-byte block.  CFB only ever uses the
\* forward direction.
AES(key, blk) ==
  LET s == SumSeq(key) + 3 * SumSeq(blk)
  IN  [j \in 1..IV_LEN |->
         (s + 7 * j + 5 * key[j] + 11 * blk[j] + key[j + IV_LEN]) % 256]

\* The blocks every message starts with (a generated key applied to a
\* generated IV) are computed once and looked up afterwards.
FirstBlocks == [kb \in generate_aes_key \X generate_iv |-> AES(kb[1], kb[2])]

AESBlock(key, blk) ==
  IF <<key, blk>> \in generate_aes_key \X generate_iv
  THEN FirstBlocks[<<key, blk>>]
  ELSE AES(key, blk)

\* Cipher(...) validates the IV against the block size: a mode whose IV is not
\* exactly 16 bytes raises ValueError.
ValidIV(iv) == Len(iv) = IV_LEN

XorSeq(a, ks) == [j \in 1..Len(a) |-> Xor(a[j], ks[j])]

RECURSIVE cfb_encrypt(_, _, _)
\* CFB with full-block feedback: each block of plaintext is xor-ed with the
\* AES image of the previous ciphertext block (the IV for the first one).
cfb_encrypt(key, prev, pt) ==
  IF pt = <<>> THEN <<>>
  ELSE
    LET blk == Take(pt, IV_LEN)
        c   == XorSeq(blk, AESBlock(key, prev))
    IN  IF Len(pt) <= IV_LEN THEN c
        ELSE c \o cfb_encrypt(key, c, Drop(pt, IV_LEN))

RECURSIVE cfb_decrypt(_, _, _)
cfb_decrypt(key, prev, ct) ==
  IF ct = <<>> THEN <<>>
  ELSE
    LET blk == Take(ct, IV_LEN)
        p   == XorSeq(blk, AESBlock(key, prev))
    IN  IF Len(ct) <= IV_LEN THEN p
        ELSE p \o cfb_decrypt(key, blk, Drop(ct, IV_LEN))

\* ---------------------------------------------------------------------------
\* Values
\* ---------------------------------------------------------------------------
\* Service names (the JSON field of create_service, the URL segment elsewhere).
ServiceNames == {"billing"}

\* JSON values of the use_fixed_iv request field: the two booleans and the
\* string "0" (truthy in Python, numeric zero in an SQLite BOOLEAN column).
JTrue == "true"
JFalse == "false"
JStr0 == "'0'"
\* The values requests carry; a request without the field takes the handlers'
\* default, False.
FixedIvValues == {JTrue}
\* The values a client carries to turn the fixed IV off: the boolean false
\* and the string "0".
OffFixedIvValues == {JFalse, JStr0}

\* Python truthiness of a use_fixed_iv value as it came from the request.
Truthy(v) == v # JFalse

\* What the BOOLEAN (numeric affinity) column holds after binding the value:
\* True is 1, False is 0 and the text '0' is converted to the integer 0.
SqlBool(v) == IF v = JTrue THEN 1 ELSE 0

\* A nullable TEXT column value.
SqlNull == [null |-> TRUE, text |-> <<>>]
SqlText(t) == [null |-> FALSE, text |-> t]

\* Plaintexts a request carries: the empty str, "h" + "e-acute" (three bytes
\* of UTF-8) and seventeen letters (more than one cipher block).
Plaintexts == {<<>>, <<104, 233>>, [i \in 1..(IV_LEN + 1) |-> 96 + i]}
\* Key versions a request names explicitly.
KeyVersions == {2}

\* dict.get(field, default) on the parsed JSON body.
Get(data, field, default) ==
  IF field \in DOMAIN data THEN data[field] ELSE default
Has(data, field) == field \in DOMAIN data

\* An HTTP response: jsonify(body), status.  An exception that leaves the
\* handler becomes a 500 whose body names the exception.
Response(status, body) == [status |-> status, body |-> body]
Error(status, msg) == Response(status, [error |-> msg])
Raised(exc) == Response(500, [exception |-> exc])
NoResponse == Response(0, [pending |-> TRUE])

\* ---------------------------------------------------------------------------
\* The services table.  A table is the sequence of its rows in rowid order
\* (id INTEGER PRIMARY KEY AUTOINCREMENT is the position); the schema puts no
\* UNIQUE constraint on (service_name, key_version).
\* ---------------------------------------------------------------------------
Row(service_name, aes_key, key_version, use_fixed_iv, fixed_iv) ==
  [service_name |-> service_name, aes_key |-> aes_key,
   key_version |-> key_version, use_fixed_iv |-> use_fixed_iv,
   fixed_iv |-> fixed_iv]

\* A write that keeps one row per service: the new row takes the place of the
\* service's earlier rows (INSERT OR REPLACE keyed by service_name).
InsertReplacing(table, row) ==
  Append(SelectSeq(table, LAMBDA old : old.service_name # row.service_name), row)
\* A write that overwrites the newest row of the service, when it has one
\* (UPDATE in place of INSERT).
InsertOverwriting(table, row) ==
  LET ids == {i \in 1..Len(table) : table[i].service_name = row.service_name}
  IN  IF ids = {} THEN Append(table, row)
      ELSE [table EXCEPT ![CHOOSE i \in ids : \A j \in ids : j <= i] = row]
\* A write that carries the policy and the IV of the service's newest row
\* over to the new one.
InsertInheriting(table, row) ==
  LET ids == {i \in 1..Len(table) : table[i].service_name = row.service_name}
      last == table[CHOOSE i \in ids : \A j \in ids : j <= i]
  IN  IF ids = {} THEN Append(table, row)
      ELSE Append(table, [row EXCEPT !.use_fixed_iv = last.use_fixed_iv,
                                     !.fixed_iv = last.fixed_iv])
\* A write that stores the key and the flag and leaves the IV for later.
InsertPartial(table, row) == Append(table, [row EXCEPT !.fixed_iv = SqlNull])
\* INSERT INTO services ...: appends the row, existing rows are untouched.
Insert(table, row) == Append(table, row)

\* SELECT * FROM services WHERE service_name = ?, in rowid order.
SelectService(table, service_name) ==
  SelectSeq(table, LAMBDA row : row.service_name = service_name)

\* A lookup that forgets the key_version condition.
SelectVersionAny(table, service_name, key_version) ==
  SelectSeq(table, LAMBDA row : row.service_name = service_name)
\* SELECT ... WHERE service_name = ? AND key_version = ?, in rowid order.
SelectVersion(table, service_name, key_version) ==
  SelectSeq(table, LAMBDA row : /\ row.service_name = service_name
                                /\ row.key_version = key_version)

\* An existence test that looks for a rotated version only.
ServiceExistsRotated(table, service_name) ==
  SelectSeq(table, LAMBDA row : /\ row.service_name = service_name
                                /\ row.key_version > 1) # <<>>
\* An existence test that always finds a row.
ServiceExistsAlways(table, service_name) == TRUE
\* cursor.fetchone() after SELECT * ... WHERE service_name = ?: is there a row.
ServiceExists(table, service_name) == SelectService(table, service_name) # <<>>

RECURSIVE MaxOf(_)
MaxOf(S) ==
  IF S = {} THEN 0
  ELSE LET e == CHOOSE e \in S : TRUE
           m == MaxOf(S \ {e})
       IN  IF e > m THEN e ELSE m

\* SELECT MAX(key_version) ... followed by `or 0`.
SelectMaxVersion(table, service_name) ==
  MaxOf({table[i].key_version : i \in {j \in 1..Len(table) :
                                    table[j].service_name = service_name}})

\* create_service: key_version = 1.
FIRST_KEY_VERSION == 1
\* A default that names the version after the first.
DefaultKeyVersionTwo == FIRST_KEY_VERSION + 1
\* A rotation that skips a number.
NewVersionSkipping(current_version) == current_version + 2
\* update_key: new_version = current_version + 1.
NewVersion(current_version) == current_version + 1
\* encrypt / decrypt: data.get('key_version', 1).
DEFAULT_KEY_VERSION == 1

\* The fixed_iv both writers store: b64encode(generate_iv()) if use_fixed_iv
\* else None.
FixedIvColumn(use_fixed_iv, iv) ==
  IF Truthy(use_fixed_iv) THEN SqlText(b64encode(iv)) ELSE SqlNull

\* ---------------------------------------------------------------------------
\* encrypt and decrypt.  Each does one SELECT and then works on its own
\* locals, so the whole handler is a function of the table it read.
\* ---------------------------------------------------------------------------
\* b64decode(row[2]) if row[2] else None; None and b"" are both falsy and are
\* both written <<>>.
StoredIv(col) ==
  IF col.null \/ col.text = <<>> THEN <<>> ELSE b64decode(col.text).bytes

\* A payload that carries the IV in front under either policy.
WirePayloadAlwaysIv(use_fixed_iv, iv, ciphertext) == iv \o ciphertext
\* Lines 137-142: the bytes that are base64-encoded into the response.
WirePayload(use_fixed_iv, iv, ciphertext) ==
  IF ~use_fixed_iv THEN iv \o ciphertext ELSE ciphertext

\* A split that is off by one: the last IV byte is read as ciphertext too.
SplitPayloadOffByOne(combined_data) ==
  [iv |-> Take(combined_data, IV_LEN),
   ciphertext |-> Drop(combined_data, IV_LEN - 1)]
\* Lines 189-191: the IV and the ciphertext taken out of a Random payload.
SplitPayload(combined_data) ==
  [iv |-> Take(combined_data, IV_LEN), ciphertext |-> Drop(combined_data, IV_LEN)]

\* An encrypt that takes a fresh IV whatever the policy.
EncryptionIvFresh(use_fixed_iv, fixed_iv, random_iv) == random_iv
\* Lines 126-131: the IV encrypt uses, the stored one under a fixed policy and
\* generate_iv() otherwise.
EncryptionIv(use_fixed_iv, fixed_iv, random_iv) ==
  IF use_fixed_iv THEN fixed_iv ELSE random_iv

encrypt(table, service_name, data, random_iv) ==
  LET plaintext   == Get(data, "plaintext", <<>>)
      key_version == Get(data, "key_version", DEFAULT_KEY_VERSION)
      rows        == SelectVersion(table, service_name, key_version)
  IN
  IF plaintext = <<>> THEN Error(400, "Plaintext is required")
  ELSE IF rows = <<>> THEN Error(404, "Service with version not found")
  ELSE
    LET row          == rows[1]
        aes_key      == b64decode(row.aes_key).bytes
        use_fixed_iv == row.use_fixed_iv # 0
        fixed_iv     == StoredIv(row.fixed_iv)
        iv           == EncryptionIv(use_fixed_iv, fixed_iv, random_iv)
    IN
    IF use_fixed_iv /\ fixed_iv = <<>>
    THEN Error(500, "Fixed IV is missing for this service version")
    ELSE IF ~ValidIV(iv) THEN Raised("ValueError")
    ELSE Response(200,
           [ciphertext |->
              b64encode(WirePayload(use_fixed_iv, iv,
                                    cfb_encrypt(aes_key, iv, encode(plaintext))))])

decrypt(table, service_name, data) ==
  LET ciphertext  == Get(data, "ciphertext", <<>>)
      key_version == Get(data, "key_version", DEFAULT_KEY_VERSION)
      rows        == SelectVersion(table, service_name, key_version)
  IN
  IF ciphertext = <<>> THEN Error(400, "Ciphertext is required")
  ELSE IF rows = <<>> THEN Error(404, "Service with version not found")
  ELSE
    LET row          == rows[1]
        aes_key      == b64decode(row.aes_key).bytes
        use_fixed_iv == row.use_fixed_iv # 0
        fixed_iv     == StoredIv(row.fixed_iv)
        decoded      == b64decode(ciphertext)
        split        == SplitPayload(decoded.bytes)
        iv           == IF use_fixed_iv THEN fixed_iv ELSE split.iv
        ct           == IF use_fixed_iv THEN decoded.bytes ELSE split.ciphertext
        text         == decode(cfb_decrypt(aes_key, iv, ct))
    IN
    IF use_fixed_iv /\ fixed_iv = <<>>
    THEN Error(500, "Fixed IV is missing for this service")
    ELSE IF ~decoded.ok THEN Raised("binascii.Error")
    ELSE IF ~ValidIV(iv) THEN Raised("ValueError")
    ELSE IF ~text.ok THEN Raised("UnicodeDecodeError")
    ELSE Response(200, [plaintext |-> text.str])

\* ---------------------------------------------------------------------------
\* State
\* ---------------------------------------------------------------------------
VARIABLES
  services,  \* the committed rows of the services table (services.db)
  reqs,      \* per client, its current request: the handler's position and
             \* locals while it runs, the response once it is answered
  writer     \* index of the request whose connection holds SQLite's write
             \* lock (an INSERT not yet committed), 0 when the lock is free

vars == <<services, reqs, writer>>

\* A request being handled: op is the route, pc the statement the handler is
\* at, conn its sqlite3 connection ("none" before connect, "open", "closed"),
\* local the handler's local variables, resp the response once pc = "done".
Request(op, service_name, data, pc, conn, local, resp) ==
  [op |-> op, service_name |-> service_name, data |-> data, pc |-> pc,
   conn |-> conn, local |-> local, resp |-> resp]

NoLocals == [none |-> TRUE]

Clients == 1..MaxClients
NoRequest == Request("none", "", <<>>, "done", "none", NoLocals, NoResponse)

Running == {r \in Clients : reqs[r].pc # "done"}
Done(op) == {r \in Clients : reqs[r].op = op /\ reqs[r].pc = "done"}
Idle == Running = {}
\* Rows of the table, counting the INSERTs still on their way.
Writing == {r \in Running : reqs[r].op \in {"create_service", "update_key"}}
RoomForRow == Len(services) + Cardinality(Writing) < MaxRows

\* Request bodies the model sends.
UpdateBodies(values) == {[use_fixed_iv |-> v] : v \in values} \cup {<<>>}
CreateBodies(values) ==
  UpdateBodies(values) \cup
  {[service_name |-> n] : n \in ServiceNames} \cup
  {[service_name |-> n, use_fixed_iv |-> v] : n \in ServiceNames, v \in values}
OptFixedIv == UpdateBodies(FixedIvValues)
CreateData == CreateBodies(FixedIvValues)
UpdateData == OptFixedIv
EncryptData ==
  {[plaintext |-> p] : p \in Plaintexts} \cup
  {[plaintext |-> p, key_version |-> v] : p \in Plaintexts, v \in KeyVersions}
\* Payloads a client can send back: what encrypt returned, plus an empty one,
\* one that decodes to three bytes and one with broken padding.
Ciphertexts ==
  {reqs[e].resp.body.ciphertext : e \in {r \in Done("encrypt") : reqs[r].resp.status = 200}}
    \cup {<<>>, b64encode(<<1, 2, 3>>), <<16>>}
DecryptData ==
  {[ciphertext |-> c] : c \in Ciphertexts} \cup
  {[ciphertext |-> c, key_version |-> v] : c \in Ciphertexts, v \in KeyVersions}

Init ==
  /\ services = <<>>
  /\ reqs = [r \in Clients |-> NoRequest]
  /\ writer = 0

\* ---------------------------------------------------------------------------
\* create_service
\* ---------------------------------------------------------------------------
\* Lines 54-67, for a request whose JSON body is data: parse, connect, look
\* the service up.
CreateServiceRequest(r, data) ==
  /\ reqs[r].pc = "done"
  /\ RoomForRow
  /\ LET service_name == Get(data, "service_name", "")
         use_fixed_iv == Get(data, "use_fixed_iv", JFalse)
         new(pc, conn, resp) ==
           Request("create_service", service_name, data, pc, conn,
                   [use_fixed_iv |-> use_fixed_iv], resp)
     IN  reqs' = [reqs EXCEPT ![r] =
           IF service_name = ""
           THEN new("done", "none", Error(400, "Service name is required"))
           ELSE IF ServiceExists(services, service_name)
           THEN new("done", "open", Error(400, "Service already exists"))
           ELSE new("insert", "open", NoResponse)]
  /\ UNCHANGED <<services, writer>>

CreateServiceCheck(r) == \E data \in CreateData : CreateServiceRequest(r, data)

\* Lines 69-82: generate the key and the IV, INSERT version 1.  The INSERT
\* opens the connection's transaction and takes the write lock.
CreateServiceInsert(r) ==
  /\ reqs[r].op = "create_service"
  /\ reqs[r].pc = "insert"
  /\ writer = 0
  /\ \E aes_key \in generate_aes_key :
     \E iv \in IF Truthy(reqs[r].local.use_fixed_iv) THEN generate_iv
               ELSE {<<>>} :
       LET fixed_iv == FixedIvColumn(reqs[r].local.use_fixed_iv, iv)
           row == Row(reqs[r].service_name, b64encode(aes_key),
                      FIRST_KEY_VERSION,
                      SqlBool(reqs[r].local.use_fixed_iv), fixed_iv)
       IN  reqs' = [reqs EXCEPT ![r].pc = "commit",
                                ![r].local = [row |-> row]]
  /\ writer' = r
  /\ UNCHANGED services

\* Lines 83-90: commit, close, answer.
CreateServiceCommit(r) ==
  /\ reqs[r].op = "create_service"
  /\ reqs[r].pc = "commit"
  /\ services' = Insert(services, reqs[r].local.row)
  /\ writer' = 0
  /\ reqs' = [reqs EXCEPT
       ![r].pc = "done",
       ![r].conn = "closed",
       ![r].resp = Response(200, [aes_key |-> reqs[r].local.row.aes_key,
                                  fixed_iv |-> reqs[r].local.row.fixed_iv])]

\* ---------------------------------------------------------------------------
\* update_key
\* ---------------------------------------------------------------------------
\* Lines 210-230, for a request to /<service_name>/update_key whose JSON body
\* is data: generate the key and the IV, connect, look the service up.
UpdateKeyRequest(r, service_name, data) ==
  /\ reqs[r].pc = "done"
  /\ RoomForRow
  /\ LET use_fixed_iv == Get(data, "use_fixed_iv", JFalse)
         new(pc, local, resp) ==
           Request("update_key", service_name, data, pc, "open", local, resp)
     IN
     IF ~ServiceExists(services, service_name)
     THEN reqs' = [reqs EXCEPT ![r] = new("done", NoLocals, Error(404, "Service not found"))]
     ELSE \E new_aes_key \in generate_aes_key :
          \E iv \in IF Truthy(use_fixed_iv) THEN generate_iv ELSE {<<>>} :
            reqs' = [reqs EXCEPT ![r] =
              new("max",
                  [use_fixed_iv |-> use_fixed_iv,
                   new_aes_key |-> new_aes_key,
                   fixed_iv_base64 |-> FixedIvColumn(use_fixed_iv, iv)],
                  NoResponse)]
  /\ UNCHANGED <<services, writer>>

UpdateKeyCheck(r) ==
  \E service_name \in ServiceNames, data \in UpdateData :
    UpdateKeyRequest(r, service_name, data)

\* Lines 232-235: read the highest version and add one.
UpdateKeyMax(r) ==
  /\ reqs[r].op = "update_key"
  /\ reqs[r].pc = "max"
  /\ LET current_version == SelectMaxVersion(services, reqs[r].service_name)
         new_version == NewVersion(current_version)
         row == Row(reqs[r].service_name, b64encode(reqs[r].local.new_aes_key),
                    new_version, SqlBool(reqs[r].local.use_fixed_iv),
                    reqs[r].local.fixed_iv_base64)
     IN  reqs' = [reqs EXCEPT ![r].pc = "insert", ![r].local = [row |-> row]]
  /\ UNCHANGED <<services, writer>>

\* Lines 237-241: INSERT the new version (takes the write lock).
UpdateKeyInsert(r) ==
  /\ reqs[r].op = "update_key"
  /\ reqs[r].pc = "insert"
  /\ writer = 0
  /\ writer' = r
  /\ reqs' = [reqs EXCEPT ![r].pc = "commit"]
  /\ UNCHANGED services

\* Lines 243-250: commit, close, answer.
UpdateKeyCommit(r) ==
  /\ reqs[r].op = "update_key"
  /\ reqs[r].pc = "commit"
  /\ services' = Insert(services, reqs[r].local.row)
  /\ writer' = 0
  /\ reqs' = [reqs EXCEPT
       ![r].pc = "done",
       ![r].conn = "closed",
       ![r].resp = Response(200, [new_aes_key |-> reqs[r].local.row.aes_key,
                                  fixed_iv |-> reqs[r].local.row.fixed_iv])]

\* An INSERT that finds the write lock held waits for it; when the wait
\* outlasts sqlite3.connect's default timeout the INSERT raises
\* OperationalError (database is locked) and the handler ends there.
InsertBusy(r) ==
  /\ reqs[r].pc = "insert"
  /\ writer # 0
  /\ reqs' = [reqs EXCEPT ![r].pc = "done",
                          ![r].resp = Raised("sqlite3.OperationalError")]
  /\ UNCHANGED <<services, writer>>

\* ---------------------------------------------------------------------------
\* encrypt, decrypt
\* ---------------------------------------------------------------------------
\* The connection of encrypt and decrypt: opened after the body is validated
\* (lines 107, 164) and closed right after the SELECT (lines 116, 173).
ReadConn(resp) == IF resp.status = 400 THEN "none" ELSE "closed"

\* Lines 100-146.
Encrypt(r) ==
  /\ reqs[r].pc = "done"
  /\ \E service_name \in ServiceNames, data \in EncryptData, iv \in generate_iv :
       LET resp == encrypt(services, service_name, data, iv)
       IN  reqs' = [reqs EXCEPT ![r] =
             Request("encrypt", service_name, data, "done", ReadConn(resp),
                     NoLocals, resp)]
  /\ UNCHANGED <<services, writer>>

\* A decrypt that uses a record once: a successful call deletes the row it
\* fetched.
DecryptConsuming(r) ==
  /\ reqs[r].pc = "done"
  /\ \E service_name \in ServiceNames, data \in DecryptData :
       LET resp == decrypt(services, service_name, data)
           used(row) == /\ row.service_name = service_name
                        /\ row.key_version = Get(data, "key_version", DEFAULT_KEY_VERSION)
       IN  /\ reqs' = [reqs EXCEPT ![r] =
                 Request("decrypt", service_name, data, "done", ReadConn(resp),
                         NoLocals, resp)]
           /\ services' = IF resp.status = 200
                          THEN SelectSeq(services, LAMBDA row : ~used(row))
                          ELSE services
  /\ UNCHANGED writer

\* Lines 157-197.
Decrypt(r) ==
  /\ reqs[r].pc = "done"
  /\ \E service_name \in ServiceNames, data \in DecryptData :
       LET resp == decrypt(services, service_name, data)
       IN  reqs' = [reqs EXCEPT ![r] =
             Request("decrypt", service_name, data, "done", ReadConn(resp),
                     NoLocals, resp)]
  /\ UNCHANGED <<services, writer>>

\* encrypt and decrypt as they run next to other requests: the SELECT is the
\* one statement that reads the table, the rest of the handler works on the
\* row it fetched.
\* Lines 100-116: parse, validate, connect, SELECT, fetchone, close.
EncryptSelect(r) ==
  /\ reqs[r].pc = "done"
  /\ \E service_name \in ServiceNames, data \in EncryptData :
       LET plaintext   == Get(data, "plaintext", <<>>)
           key_version == Get(data, "key_version", DEFAULT_KEY_VERSION)
           row == Take(SelectVersion(services, service_name, key_version), 1)
       IN  reqs' = [reqs EXCEPT ![r] =
             IF plaintext = <<>>
             THEN Request("encrypt", service_name, data, "done", "none",
                          NoLocals, Error(400, "Plaintext is required"))
             ELSE Request("encrypt", service_name, data, "cipher", "closed",
                          [row |-> row], NoResponse)]
  /\ UNCHANGED <<services, writer>>

\* Lines 118-146: the answer, from the fetched row alone.
EncryptCipher(r) ==
  /\ reqs[r].op = "encrypt"
  /\ reqs[r].pc = "cipher"
  /\ \E iv \in generate_iv :
       reqs' = [reqs EXCEPT
         ![r].pc = "done",
         ![r].resp = encrypt(reqs[r].local.row, reqs[r].service_name,
                             reqs[r].data, iv)]
  /\ UNCHANGED <<services, writer>>

\* Lines 157-173: parse, validate, connect, SELECT, fetchone, close.
DecryptSelect(r) ==
  /\ reqs[r].pc = "done"
  /\ \E service_name \in ServiceNames, data \in DecryptData :
       LET ciphertext  == Get(data, "ciphertext", <<>>)
           key_version == Get(data, "key_version", DEFAULT_KEY_VERSION)
           row == Take(SelectVersion(services, service_name, key_version), 1)
       IN  reqs' = [reqs EXCEPT ![r] =
             IF ciphertext = <<>>
             THEN Request("decrypt", service_name, data, "done", "none",
                          NoLocals, Error(400, "Ciphertext is required"))
             ELSE Request("decrypt", service_name, data, "cipher", "closed",
                          [row |-> row], NoResponse)]
  /\ UNCHANGED <<services, writer>>

\* Lines 175-197: the answer, from the fetched row alone.
DecryptCipher(r) ==
  /\ reqs[r].op = "decrypt"
  /\ reqs[r].pc = "cipher"
  /\ reqs' = [reqs EXCEPT
       ![r].pc = "done",
       ![r].resp = decrypt(reqs[r].local.row, reqs[r].service_name, reqs[r].data)]
  /\ UNCHANGED <<services, writer>>

\* ---------------------------------------------------------------------------
\* Specifications
\* ---------------------------------------------------------------------------
\* The threaded server: every client's request runs in its own thread.
Next ==
  \/ \E r \in Clients : CreateServiceCheck(r)
  \/ \E r \in Clients : CreateServiceInsert(r)
  \/ \E r \in Clients : CreateServiceCommit(r)
  \/ \E r \in Clients : UpdateKeyCheck(r)
  \/ \E r \in Clients : UpdateKeyMax(r)
  \/ \E r \in Clients : UpdateKeyInsert(r)
  \/ \E r \in Clients : UpdateKeyCommit(r)
  \/ \E r \in Clients : InsertBusy(r)
  \/ \E r \in Clients : Encrypt(r)
  \/ \E r \in Clients : Decrypt(r)

Spec == Init /\ [][Next]_vars

\* Key management under load: every client creates and rotates concurrently,
\* nobody encrypts or decrypts.  A part of Spec's behaviours.
NextWrite ==
  \/ \E r \in Clients : CreateServiceCheck(r)
  \/ \E r \in Clients : CreateServiceInsert(r)
  \/ \E r \in Clients : CreateServiceCommit(r)
  \/ \E r \in Clients : UpdateKeyCheck(r)
  \/ \E r \in Clients : UpdateKeyMax(r)
  \/ \E r \in Clients : UpdateKeyInsert(r)
  \/ \E r \in Clients : UpdateKeyCommit(r)
  \/ \E r \in Clients : InsertBusy(r)

SpecWrite == Init /\ [][NextWrite]_vars

\* A sequential run: a request is sent only after the previous one was
\* answered, so no INSERT ever finds the lock held.  One client administers
\* the keys (create_service, update_key), the others encrypt and decrypt.
\* A part of Spec's behaviours.
Admin == 1
Users == Clients \ {Admin}

NextSeq ==
  \/ Idle /\ CreateServiceCheck(Admin)
  \/ CreateServiceInsert(Admin)
  \/ CreateServiceCommit(Admin)
  \/ Idle /\ UpdateKeyCheck(Admin)
  \/ UpdateKeyMax(Admin)
  \/ UpdateKeyInsert(Admin)
  \/ UpdateKeyCommit(Admin)
  \/ \E r \in Users : Idle /\ Encrypt(r)
  \/ \E r \in Users : Idle /\ Decrypt(r)

SpecSeq == Init /\ [][NextSeq]_vars

\* A sequential run whose administrator turns the fixed IV off in every
\* request, writing use_fixed_iv as one of OffFixedIvValues or leaving it out
\* (the handlers take whatever get_json() parsed).  A part of the server's
\* behaviours with those request bodies.
NextJson ==
  \/ Idle /\ \E data \in CreateBodies(OffFixedIvValues) :
               CreateServiceRequest(Admin, data)
  \/ CreateServiceInsert(Admin)
  \/ CreateServiceCommit(Admin)
  \/ Idle /\ \E service_name \in ServiceNames :
             \E data \in UpdateBodies(OffFixedIvValues) :
               UpdateKeyRequest(Admin, service_name, data)
  \/ UpdateKeyMax(Admin)
  \/ UpdateKeyInsert(Admin)
  \/ UpdateKeyCommit(Admin)
  \/ \E r \in Users : Idle /\ Encrypt(r)
  \/ \E r \in Users : Idle /\ Decrypt(r)

SpecJson == Init /\ [][NextJson]_vars

\* Key management next to traffic: the administrator creates and rotates
\* while the other clients encrypt and decrypt, every request in its own
\* thread, the readers taken statement by statement.  With one writer no
\* INSERT finds the lock held.
NextRotate ==
  \/ CreateServiceCheck(Admin)
  \/ CreateServiceInsert(Admin)
  \/ CreateServiceCommit(Admin)
  \/ UpdateKeyCheck(Admin)
  \/ UpdateKeyMax(Admin)
  \/ UpdateKeyInsert(Admin)
  \/ UpdateKeyCommit(Admin)
  \/ \E r \in Users : EncryptSelect(r)
  \/ \E r \in Users : EncryptCipher(r)
  \/ \E r \in Users : DecryptSelect(r)
  \/ \E r \in Users : DecryptCipher(r)

SpecRotate == Init /\ [][NextRotate]_vars

\* ---------------------------------------------------------------------------
\* Vocabulary of the properties
\* ---------------------------------------------------------------------------
\* The typed results of the error taxonomy, as the handlers answer them.
AlreadyExists(resp) == resp = Error(400, "Service already exists")
NotFound(resp) == resp.status = 404 /\ Has(resp.body, "error")
\* A typed client error: a 4xx answer that carries an error message.
ClientError(resp) == resp.status \in 400..499 /\ Has(resp.body, "error")

\* Client r sends a request to route op in this step.  For encrypt and
\* decrypt the step is the whole handler: services is the table it read and
\* reqs'[r].resp its answer.
Sends(r, op) ==
  /\ reqs[r].pc = "done"
  /\ reqs'[r] # reqs[r]
  /\ reqs'[r].op = op

\* The key version a request to encrypt or decrypt names, None when it names
\* none.
Versionless(req) == ~Has(req.data, "key_version")
\* The request req with the key version v written into its body.
WithVersion(req, v) == [key_version |-> v] @@ req.data

RowIds(table, service_name) ==
  {i \in 1..Len(table) : table[i].service_name = service_name}

\* ---------------------------------------------------------------------------
\* C1.  Under any interleaving of concurrent update_key requests for one
\* service, the record a rotation writes (a version above 1) never has the
\* (service_name, key_version) of another stored record.
\* ---------------------------------------------------------------------------
C1_RotatedVersionsDistinct ==
  \A i \in 1..Len(services) : \A j \in 1..Len(services) :
    (/\ i # j
     /\ services[i].key_version > FIRST_KEY_VERSION
     /\ services[i].service_name = services[j].service_name)
      => services[i].key_version # services[j].key_version

\* ---------------------------------------------------------------------------
\* C2.  In a sequential run the versions stored for a service are 1, 2, ...,
\* n + 1 in the order they were written: create_service stores 1 and the k-th
\* update_key stores k + 1, with no gap and no reuse.
\* ---------------------------------------------------------------------------
C2_SequentialVersions ==
  \A name \in ServiceNames :
    LET rows == SelectService(services, name)
    IN  \A k \in 1..Len(rows) : rows[k].key_version = k

\* create_service and then two rotations have been stored.
C2_Witness ==
  \E name \in ServiceNames :
    {services[i].key_version : i \in RowIds(services, name)} = {1, 2, 3}

\* ---------------------------------------------------------------------------
\* C3.  As claimed: an encrypt or decrypt request that names no key version
\* is answered as the same request naming the service's latest version (the
\* highest key_version stored when it is handled).
\* ---------------------------------------------------------------------------
AnsweredAsVersion(r, v) ==
  /\ Sends(r, "encrypt") =>
       \E iv \in generate_iv :
         reqs'[r].resp = encrypt(services, reqs'[r].service_name,
                                 WithVersion(reqs'[r], v), iv)
  /\ Sends(r, "decrypt") =>
       reqs'[r].resp = decrypt(services, reqs'[r].service_name,
                               WithVersion(reqs'[r], v))

C3_DefaultIsLatest ==
  [][\A r \in Clients :
       Versionless(reqs'[r]) =>
         AnsweredAsVersion(r, SelectMaxVersion(services, reqs'[r].service_name))]_vars

\* C3, amended.  An encrypt or decrypt request that names no key version is
\* answered as the same request naming version 1, whatever rotations the
\* service has had.
C3_DefaultIsVersionOne ==
  [][\A r \in Clients : Versionless(reqs'[r]) => AnsweredAsVersion(r, 1)]_vars

\* A request without a key version was served although the service had
\* been rotated.
C3_Witness ==
  \E r \in Clients :
    /\ reqs[r].op \in {"encrypt", "decrypt"}
    /\ Versionless(reqs[r])
    /\ reqs[r].resp.status = 200
    /\ SelectMaxVersion(services, reqs[r].service_name) > 1

\* ---------------------------------------------------------------------------
\* C4.  A create_service request for a name that has a stored version is
\* answered AlreadyExists in that step and leaves the table as it was; the
\* handler goes no further (it never reaches its INSERT).
\* ---------------------------------------------------------------------------
C4_CreateExistingRejected ==
  [][\A r \in Clients :
       (/\ Sends(r, "create_service")
        /\ SelectService(services, reqs'[r].service_name) # <<>>)
         => /\ AlreadyExists(reqs'[r].resp)
            /\ reqs'[r].pc = "done"
            /\ services' = services]_vars

\* A create_service was refused for a name that is stored.
C4_Witness ==
  \E r \in Clients :
    /\ reqs[r].op = "create_service"
    /\ AlreadyExists(reqs[r].resp)
    /\ SelectService(services, reqs[r].service_name) # <<>>

\* ---------------------------------------------------------------------------
\* C5.  Under any interleaving of concurrent create_service requests for one
\* name at most one succeeds: the table never holds two version-1 records of
\* the same service.
\* ---------------------------------------------------------------------------
C5_OneCreationPerService ==
  \A name \in ServiceNames :
    Cardinality({i \in RowIds(services, name) :
                   services[i].key_version = FIRST_KEY_VERSION}) <= 1

\* ---------------------------------------------------------------------------
\* C6.  Decrypting what encrypt returned, under the same service and version,
\* gives the plaintext back when that version's policy is Random: a decrypt
\* request whose ciphertext is the answer of an encrypt of P is answered P.
\* ---------------------------------------------------------------------------
VersionOf(req) == Get(req.data, "key_version", DEFAULT_KEY_VERSION)
\* The record (service, version) resolves to is stored with Random policy.
RandomPolicy(table, service_name, key_version) ==
  LET rows == SelectSeq(table, LAMBDA row : /\ row.service_name = service_name
                                            /\ row.key_version = key_version)
  IN  rows # <<>> /\ rows[1].use_fixed_iv = 0

\* Request d decrypts the payload that answered the encrypt request e.
DecryptsAnswerOf(d, e) ==
  /\ e.op = "encrypt"
  /\ e.resp.status = 200
  /\ d.op = "decrypt"
  /\ d.service_name = e.service_name
  /\ VersionOf(d) = VersionOf(e)
  /\ Get(d.data, "ciphertext", <<>>) = e.resp.body.ciphertext

C6_RandomRoundTrip ==
  [][\A d \in Clients : \A e \in Clients :
       (/\ Sends(d, "decrypt")
        /\ DecryptsAnswerOf(reqs'[d], reqs[e])
        /\ RandomPolicy(services, reqs[e].service_name, VersionOf(reqs[e])))
         => reqs'[d].resp = Response(200, [plaintext |-> reqs[e].data.plaintext])]_vars

\* A payload that encrypt produced under a Random version, with its IV in
\* front, was decrypted to a plaintext.
C6_Witness ==
  \E d \in Clients :
    /\ reqs[d].op = "decrypt"
    /\ reqs[d].resp.status = 200
    /\ reqs[d].resp.body.plaintext \in Plaintexts \ {<<>>}
    /\ Len(a2b_base64(reqs[d].data.ciphertext).bytes) > IV_LEN
    /\ RandomPolicy(services, reqs[d].service_name, VersionOf(reqs[d]))

\* ---------------------------------------------------------------------------
\* C7.  A payload encrypt returned under (service, version v) decrypts to its
\* plaintext under version v in every later state, whatever rotations the
\* service has had since: rotation leaves the record of v in place.
\* ---------------------------------------------------------------------------
C7_OldVersionsStillDecrypt ==
  \A e \in Clients :
    (reqs[e].op = "encrypt" /\ reqs[e].resp.status = 200)
      => decrypt(services, reqs[e].service_name,
                 [ciphertext |-> reqs[e].resp.body.ciphertext,
                  key_version |-> VersionOf(reqs[e])])
           = Response(200, [plaintext |-> reqs[e].data.plaintext])

\* A payload of version 1 is held while the service has version 2 or more,
\* and it decrypts under version 1.
C7_Witness ==
  \E e \in Clients :
    /\ reqs[e].op = "encrypt"
    /\ reqs[e].resp.status = 200
    /\ VersionOf(reqs[e]) = 1
    /\ SelectMaxVersion(services, reqs[e].service_name) > 1
    /\ decrypt(services, reqs[e].service_name,
               [ciphertext |-> reqs[e].resp.body.ciphertext, key_version |-> 1]).status = 200

\* ---------------------------------------------------------------------------
\* C8.  A stored record never changes and never goes away: every step leaves
\* each row of the table as it was (key, flag and IV) and at most adds rows
\* after them.
\* ---------------------------------------------------------------------------
C8_RecordsImmutable ==
  [][/\ Len(services') >= Len(services)
     /\ \A i \in 1..Len(services) : services'[i] = services[i]]_vars

\* A rotation has been stored next to the record it supersedes.
C8_Witness ==
  \E i \in 1..Len(services) : \E j \in 1..Len(services) :
    /\ i < j
    /\ services[i].service_name = services[j].service_name
    /\ services[i].key_version = 1
    /\ services[j].key_version = 2

\* ---------------------------------------------------------------------------
\* C9.  A decrypt request whose payload decodes to fewer than 16 bytes,
\* against a version with Random policy, is answered with a typed client
\* error (MalformedPayload); the cipher is not set up with the short IV.
\* ---------------------------------------------------------------------------
C9_ShortPayloadMalformed ==
  [][\A d \in Clients :
       (/\ Sends(d, "decrypt")
        /\ RandomPolicy(services, reqs'[d].service_name, VersionOf(reqs'[d]))
        /\ a2b_base64(Get(reqs'[d].data, "ciphertext", <<>>)).ok
        /\ Len(a2b_base64(Get(reqs'[d].data, "ciphertext", <<>>)).bytes) < IV_LEN)
         => ClientError(reqs'[d].resp)]_vars

\* ---------------------------------------------------------------------------
\* C10.  As claimed: an encrypt or decrypt request for a (service, version)
\* that has no record is answered NotFound.
\* ---------------------------------------------------------------------------
NoRecordFor(req) ==
  SelectSeq(services, LAMBDA row : /\ row.service_name = req.service_name
                                   /\ row.key_version = VersionOf(req)) = <<>>

C10_UnknownIsNotFound ==
  [][\A r \in Clients :
       ((Sends(r, "encrypt") \/ Sends(r, "decrypt")) /\ NoRecordFor(reqs'[r]))
         => NotFound(reqs'[r].resp)]_vars

\* C10, amended.  An encrypt request with a non-empty plaintext, or a decrypt
\* request with a non-empty ciphertext, for a (service, version) that has no
\* record is answered NotFound, with no ciphertext or plaintext in the answer.
C10_UnknownIsNotFoundWhenBodyValid ==
  [][\A r \in Clients :
       (/\ NoRecordFor(reqs'[r])
        /\ \/ Sends(r, "encrypt") /\ Get(reqs'[r].data, "plaintext", <<>>) # <<>>
           \/ Sends(r, "decrypt") /\ Get(reqs'[r].data, "ciphertext", <<>>) # <<>>)
         => /\ NotFound(reqs'[r].resp)
            /\ DOMAIN reqs'[r].resp.body = {"error"}]_vars

\* A well-formed request for a version the service does not have was
\* answered NotFound.
C10_Witness ==
  \E r \in Clients :
    /\ reqs[r].op \in {"encrypt", "decrypt"}
    /\ NotFound(reqs[r].resp)
    /\ NoRecordFor(reqs[r])
    /\ ServiceExists(services, reqs[r].service_name)

\* ---------------------------------------------------------------------------
\* C11.  An update_key request for a name that has no stored version is
\* answered NotFound in that step and leaves the table as it was; the handler
\* goes no further, so no record is ever written for the unknown service.
\* ---------------------------------------------------------------------------
C11_UpdateUnknownNotFound ==
  [][\A r \in Clients :
       (/\ Sends(r, "update_key")
        /\ SelectService(services, reqs'[r].service_name) = <<>>)
         => /\ NotFound(reqs'[r].resp)
            /\ reqs'[r].pc = "done"
            /\ services' = services]_vars

\* An update_key was refused for a name that has no record.
C11_Witness ==
  \E r \in Clients :
    /\ reqs[r].op = "update_key"
    /\ reqs[r].pc = "done"
    /\ NotFound(reqs[r].resp)
    /\ SelectService(services, reqs[r].service_name) = <<>>

\* ---------------------------------------------------------------------------
\* C12.  Every stored record has an IV if and only if its policy is Fixed (its
\* use_fixed_iv column reads true), whatever value of use_fixed_iv the request
\* that wrote it carried.
\* ---------------------------------------------------------------------------
C12_IvIffFixed ==
  \A i \in 1..Len(services) :
    (services[i].use_fixed_iv # 0) <=> ~services[i].fixed_iv.null

\* ---------------------------------------------------------------------------
\* C13.  An encrypt or decrypt request that resolves to a record whose policy
\* flag and IV disagree (Fixed without an IV, or Random with an IV stored) is
\* answered with an error: no ciphertext or plaintext is produced from it.
\* ---------------------------------------------------------------------------
\* The records (service, version) of the request resolves to, in rowid order.
RecordsFor(req) ==
  SelectSeq(services, LAMBDA row : /\ row.service_name = req.service_name
                                   /\ row.key_version = VersionOf(req))
FlagAndIvDisagree(row) == ~((row.use_fixed_iv # 0) <=> ~row.fixed_iv.null)

C13_DisagreementSurfaced ==
  [][\A r \in Clients :
       (/\ Sends(r, "encrypt") \/ Sends(r, "decrypt")
        /\ RecordsFor(reqs'[r]) # <<>>
        /\ FlagAndIvDisagree(RecordsFor(reqs'[r])[1]))
         => reqs'[r].resp.status # 200]_vars

\* ---------------------------------------------------------------------------
\* C14.  The SELECT of an encrypt or decrypt request that runs while a
\* rotation of the same service is in flight fetches what the table holds
\* either without the rotation's record or with all of it: the row it gets is
\* a whole record (key, flag and the IV the flag calls for), and the commit of
\* the rotation adds the record in one step, exactly as the handler built it.
\* ---------------------------------------------------------------------------
\* The records of INSERTs that are not committed yet.
Pending == {reqs[w].local.row : w \in {r \in Running : reqs[r].pc = "commit"}}
\* What a table answers to the SELECT of the request req (fetchone).
Fetched(table, req) ==
  Take(SelectSeq(table, LAMBDA row : /\ row.service_name = req.service_name
                                     /\ row.key_version = VersionOf(req)), 1)
\* A whole record: a 32-byte key and, with the flag set, a 16-byte IV.
WholeRecord(row) ==
  /\ b64decode(row.aes_key).ok
  /\ Len(b64decode(row.aes_key).bytes) = KEY_LEN
  /\ row.use_fixed_iv \in {0, 1}
  /\ (row.use_fixed_iv = 1) =>
       /\ ~row.fixed_iv.null
       /\ Len(b64decode(row.fixed_iv.text).bytes) = IV_LEN
  /\ (row.use_fixed_iv = 0) => row.fixed_iv.null

C14_NoPartialRead ==
  [][/\ \A r \in Clients :
          ((Sends(r, "encrypt") \/ Sends(r, "decrypt")) /\ reqs'[r].pc = "cipher")
            => /\ reqs'[r].local.row \in
                    {Fetched(services, reqs'[r])} \cup
                    {Fetched(Append(services, p), reqs'[r]) : p \in Pending}
               /\ \A i \in 1..Len(reqs'[r].local.row) :
                    WholeRecord(reqs'[r].local.row[i])
     /\ \A w \in Clients :
          (reqs[w].pc = "commit" /\ reqs'[w].pc = "done")
            => services' = Append(services, reqs[w].local.row)]_vars

\* A read and a rotation of the same service are in flight together: the
\* rotation holds its record, INSERTed and not committed, and the reader has
\* asked for that very version and fetched no row.
C14_Witness ==
  \E r \in Clients : \E w \in Clients :
    /\ reqs[w].op = "update_key"
    /\ reqs[w].pc = "commit"
    /\ reqs[r].op \in {"encrypt", "decrypt"}
    /\ reqs[r].pc = "cipher"
    /\ reqs[r].service_name = reqs[w].service_name
    /\ VersionOf(reqs[r]) = reqs[w].local.row.key_version
    /\ reqs[w].local.row.use_fixed_iv = 1
    /\ reqs[r].local.row = <<>>

\* ---------------------------------------------------------------------------
\* C15.  Under a version with Fixed policy an encrypt of P is answered with
\* the payload every other encrypt of P under that version was answered with:
\* the ciphertext of P under the stored IV, with no IV in front, and that
\* payload decrypts to P under the version.
\* ---------------------------------------------------------------------------
\* The record (service, version) resolves to is stored with Fixed policy.
FixedPolicy(table, service_name, key_version) ==
  LET rows == SelectSeq(table, LAMBDA row : /\ row.service_name = service_name
                                            /\ row.key_version = key_version)
  IN  rows # <<>> /\ rows[1].use_fixed_iv # 0
\* The request is an encrypt that was answered with a payload.
Encrypted(req) ==
  req.op = "encrypt" /\ req.pc = "done" /\ req.resp.status = 200

C15_FixedSamePayload ==
  [][\A r \in Clients : \A e \in Clients :
       (/\ Encrypted(reqs'[r])
        /\ Encrypted(reqs[e])
        /\ reqs'[r].service_name = reqs[e].service_name
        /\ VersionOf(reqs'[r]) = VersionOf(reqs[e])
        /\ reqs'[r].data.plaintext = reqs[e].data.plaintext
        /\ FixedPolicy(services, reqs[e].service_name, VersionOf(reqs[e])))
         => LET row == RecordsFor(reqs[e])[1]
                payload == reqs'[r].resp.body.ciphertext
            IN  /\ payload = reqs[e].resp.body.ciphertext
                /\ payload =
                     b64encode(cfb_encrypt(b64decode(row.aes_key).bytes,
                                           b64decode(row.fixed_iv.text).bytes,
                                           encode(reqs[e].data.plaintext)))
                /\ decrypt(services, reqs[e].service_name,
                           [ciphertext |-> payload,
                            key_version |-> VersionOf(reqs[e])])
                     = Response(200, [plaintext |-> reqs[e].data.plaintext])]_vars

\* An encrypt under a Fixed version was answered with a payload that is as
\* long as the plaintext's bytes (no IV in front) and decrypts to it.
C15_Witness ==
  \E e \in Clients :
    /\ Encrypted(reqs[e])
    /\ FixedPolicy(services, reqs[e].service_name, VersionOf(reqs[e]))
    /\ Len(b64decode(reqs[e].resp.body.ciphertext).bytes)
         = Len(encode(reqs[e].data.plaintext))
    /\ decrypt(services, reqs[e].service_name,
               [ciphertext |-> reqs[e].resp.body.ciphertext,
                key_version |-> VersionOf(reqs[e])])
         = Response(200, [plaintext |-> reqs[e].data.plaintext])

\* ---------------------------------------------------------------------------
\* C16.  The payload encrypt answers with is, base64-decoded, the 16-byte IV
\* followed by the ciphertext under a Random version and the ciphertext alone
\* under a Fixed one.  A plaintext decrypt answers with is, under Random, the
\* decryption of the payload's bytes after the first 16 with those 16 as IV
\* and, under Fixed, the decryption of the whole payload with the stored IV.
\* ---------------------------------------------------------------------------
C16_WireFormat ==
  [][\A r \in Clients :
       LET req   == reqs'[r]
           row   == RecordsFor(req)[1]
           key   == b64decode(row.aes_key).bytes
           fixed == FixedPolicy(services, req.service_name, VersionOf(req))
       IN
       /\ (Sends(r, "encrypt") /\ req.resp.status = 200) =>
            LET bytes == b64decode(req.resp.body.ciphertext).bytes
                pt    == encode(req.data.plaintext)
            IN  IF fixed
                THEN bytes = cfb_encrypt(key, b64decode(row.fixed_iv.text).bytes, pt)
                ELSE /\ Take(bytes, IV_LEN) \in generate_iv
                     /\ Drop(bytes, IV_LEN) = cfb_encrypt(key, Take(bytes, IV_LEN), pt)
       /\ (Sends(r, "decrypt") /\ req.resp.status = 200) =>
            LET bytes == b64decode(req.data.ciphertext).bytes
            IN  req.resp.body.plaintext =
                  IF fixed
                  THEN decode(cfb_decrypt(key, b64decode(row.fixed_iv.text).bytes,
                                          bytes)).str
                  ELSE decode(cfb_decrypt(key, Take(bytes, IV_LEN),
                                          Drop(bytes, IV_LEN))).str]_vars

\* An encrypt under a Random version was answered with a payload that starts
\* with a generated IV and goes on with as many bytes as the plaintext has.
C16_Witness ==
  \E e \in Clients :
    /\ Encrypted(reqs[e])
    /\ RandomPolicy(services, reqs[e].service_name, VersionOf(reqs[e]))
    /\ LET bytes == b64decode(reqs[e].resp.body.ciphertext).bytes
       IN  /\ Take(bytes, IV_LEN) \in generate_iv
           /\ Len(bytes) = IV_LEN + Len(encode(reqs[e].data.plaintext))

\* ---------------------------------------------------------------------------
\* C17.  A decrypt under version 2 of a payload that encrypt returned under
\* version 1 of the same service, the two versions having the same policy (so
\* that the payload is well-formed for version 2), is answered 200 with some
\* plaintext: nothing is raised and no error is returned.
\* ---------------------------------------------------------------------------
C17_WrongKeyNoError ==
  [][\A d \in Clients : \A e \in Clients :
       (/\ Sends(d, "decrypt")
        /\ Encrypted(reqs[e])
        /\ VersionOf(reqs[e]) = 1
        /\ VersionOf(reqs'[d]) = 2
        /\ reqs'[d].service_name = reqs[e].service_name
        /\ reqs'[d].data.ciphertext = reqs[e].resp.body.ciphertext
        /\ RecordsFor(reqs[e]) # <<>>
        /\ RecordsFor(reqs'[d]) # <<>>
        /\ RecordsFor(reqs'[d])[1].use_fixed_iv = RecordsFor(reqs[e])[1].use_fixed_iv)
         => reqs'[d].resp.status = 200]_vars

C19_ReadsLeaveStore ==
  [][\A r \in Clients :
       (reqs'[r] # reqs[r] /\ reqs'[r].op \in {"encrypt", "decrypt"})
         => services' = services /\ writer' = writer]_vars

\* A decrypt was answered with a plaintext while the table holds records.
C19_Witness ==
  \E r \in Clients :
    /\ reqs[r].op = "decrypt"
    /\ reqs[r].resp.status = 200
    /\ Has(reqs[r].resp.body, "plaintext")
    /\ services # <<>>

\* ---------------------------------------------------------------------------
\* C20.  A request that has been answered has no open connection: whichever
\* return the handler took, the connection it opened was closed before.
\* ---------------------------------------------------------------------------
C20_ConnectionsClosed ==
  \A r \in Clients : reqs[r].pc = "done" => reqs[r].conn # "open"

====
